---------------------------- MODULE Spec2Model ----------------------------
(***************************************************************************)
(* asltk voxel-wise mapping: the mask gate, the CBF/ATT orchestrator in    *)
(* its pooled form (reconstruction/cbf_mapping.py) and in its sequential   *)
(* form (reconstruction.py), and the multi-TE orchestrator that chains the *)
(* CBF/ATT stage into the T1blGM stage (reconstruction/multi_te_mapping.py)*)
(*                                                                         *)
(* Volumes are functions over voxels <<k, j, i>> (shape (Z, Y, X)); the    *)
(* shared output buffers are flat functions over 0 .. Z*Y*X - 1.  The      *)
(* solver (scipy curve_fit) is a fixed deterministic function of the       *)
(* voxel's observed signal; a signal is one of a few classes, among them   *)
(* one on which the solver raises RuntimeError and one (not finite) on     *)
(* which it raises ValueError.                                             *)
(***************************************************************************)
EXTENDS Integers, Sequences, FiniteSets, TLC

(* ------------------------------ bounds -------------------------------- *)
x_axis == 2
y_axis == 2
z_axis == 1
\* multiprocessing.cpu_count() of the machine
CpuCount == 2
\* largest mask value / label drawn
MaxLabel == 2
\* voxels of one input mask that may hold a value above 1
MaxMultiLabel == 1
\* voxels of the image whose signal makes the solver raise
MaxFaulty == 1
\* create_map calls in one behaviour
MaxCalls == 2
\* set_brain_mask calls in one behaviour
MaxMaskSets == 1
\* longest list of LD, PLD, TE or DW values passed to ASLData
MaxListLen == 2

(* ------------------------------ volumes ------------------------------- *)
Shape == <<z_axis, y_axis, x_axis>>

VoxelsOf(shape) ==
    { <<k, j, i>> : k \in 0 .. shape[1] - 1,
                    j \in 0 .. shape[2] - 1,
                    i \in 0 .. shape[3] - 1 }

Voxels == VoxelsOf(Shape)

FlatSize == z_axis * y_axis * x_axis

Zeros == [v \in Voxels |-> 0]

Ones == [v \in Voxels |-> 1]

ZeroBuffer == [n \in 0 .. FlatSize - 1 |-> 0]

\* the index without the chunk's own offset i
IndexNoOuterAxis(k, j, i) == k * (y_axis * x_axis) + j * x_axis

\* the index with the row stride x_axis left out
IndexUnitStride(k, j, i) == k * (y_axis * x_axis) + j + i

\* index = k * (y_axis * x_axis) + j * x_axis + i
Index(k, j, i) == k * (y_axis * x_axis) + j * x_axis + i

\* np.frombuffer(buf).reshape(z_axis, y_axis, x_axis): C (row-major) order
reshape(buf) ==
    [v \in Voxels |-> buf[(v[1] * y_axis + v[2]) * x_axis + v[3]]]

\* the voxel visited at step p of the loops "for j ...: for k ...:" of chunk i
VoxelAt(i, p) == <<p % z_axis, p \div z_axis, i>>

ChunkLen == y_axis * z_axis

Chunks == 0 .. x_axis - 1

(* ------------------------------ solver -------------------------------- *)
OkSignals == {"lo", "hi"}

Signals == OkSignals \cup {"nonconv", "nan"}

\* curve_fit on the Buxton model: the fitted [CBF, ATT], or the exception
curve_fit_buxton(ydata) ==
    CASE ydata = "lo" -> [exc |-> "none", par |-> <<1, 3>>]
      [] ydata = "hi" -> [exc |-> "none", par |-> <<2, 5>>]
      [] ydata = "nonconv" -> [exc |-> "RuntimeError", par |-> <<0, 0>>]
      [] OTHER -> [exc |-> "ValueError", par |-> <<0, 0>>]

\* curve_fit on the multi-TE model, whose fixed inputs are the voxel's CBF
\* and ATT: the fitted [T1blGM], or the exception
curve_fit_multite(ydata, cbf, att) ==
    CASE ydata = "lo" -> [exc |-> "none", par |-> <<800 + 100 * cbf + att>>]
      [] ydata = "hi" -> [exc |-> "none", par |-> <<1500 + 100 * cbf + att>>]
      [] ydata = "nonconv" -> [exc |-> "RuntimeError", par |-> <<0>>]
      [] OTHER -> [exc |-> "ValueError", par |-> <<0>>]

\* par0 of MultiTE_ASLMapping.create_map
T1blGM_par0 == 400

\* a value above the upper limit brought back to the limit instead
_adjust_image_limits_clamp(map, init_guess) ==
    [v \in DOMAIN map |-> IF map[v] > 4 * init_guess THEN 4 * init_guess
                          ELSE IF map[v] < 0 THEN 0 ELSE map[v]]

\* sitk.ThresholdImageFilter with SetLower(0.0), SetUpper(4 * init_guess):
\* a value outside [lower, upper] becomes the filter's outside value, 0
_adjust_image_limits(map, init_guess) ==
    [v \in DOMAIN map |-> IF map[v] > 4 * init_guess \/ map[v] < 0 THEN 0
                          ELSE map[v]]

\* the image volumes drawn: a fixed pattern of signals, with at most
\* MaxFaulty voxels on which the solver raises
BasePattern == [v \in Voxels |-> IF (v[1] + v[2] + v[3]) % 2 = 0 THEN "lo" ELSE "hi"]

Images ==
    { img \in [Voxels -> Signals] :
        /\ \A v \in Voxels : img[v] \in OkSignals => img[v] = BasePattern[v]
        /\ Cardinality({v \in Voxels : img[v] \notin OkSignals}) <= MaxFaulty }


(* ------------------------------ mask gate ----------------------------- *)
\* a mask handed to set_brain_mask: an array of some shape, or not an array
WrongShape == <<1, 1, 1>>

ArrayMasks(shape) ==
    { [type |-> "array", shape |-> shape, data |-> d] :
        d \in { f \in [VoxelsOf(shape) -> 0 .. MaxLabel] :
                  Cardinality({v \in VoxelsOf(shape) : f[v] > 1}) <= MaxMultiLabel } }

NotAnArray == [type |-> "str", shape |-> <<>>, data |-> <<>>]

MaskInputs == ArrayMasks(Shape) \cup ArrayMasks(WrongShape) \cup {NotAnArray}

Labels == 0 .. MaxLabel + 1

NoError == [exc |-> "none", msg |-> <<>>]

Raise(exc, msg) == [exc |-> exc, msg |-> msg]

\* np.unique(mask_array)
unique_values(mask) == { mask.data[v] : v \in DOMAIN mask.data }

\* the checks without the search of the label among the mask's values
_check_mask_values_no_label_check(mask, label, ref_shape) ==
    IF mask.type # "array"
    THEN Raise("TypeError", <<"mask is not an array", mask.type>>)
    ELSE IF mask.shape # ref_shape
    THEN Raise("TypeError",
               <<"Image mask dimension does not match with input 3D volume.",
                 mask.shape, ref_shape>>)
    ELSE NoError

\* the checks with a shape error that does not carry the two shapes
_check_mask_values_bare_shape_error(mask, label, ref_shape) ==
    IF mask.type # "array"
    THEN Raise("TypeError", <<"mask is not an array", mask.type>>)
    ELSE IF label \notin unique_values(mask)
    THEN Raise("ValueError", <<"Label value is not found in the mask provided.">>)
    ELSE IF mask.shape # ref_shape
    THEN Raise("TypeError",
               <<"Image mask dimension does not match with input 3D volume.">>)
    ELSE NoError

\* the checks of _check_mask_values in their order: type, label, shape
_check_mask_values(mask, label, ref_shape) ==
    IF mask.type # "array"
    THEN Raise("TypeError", <<"mask is not an array", mask.type>>)
    ELSE IF label \notin unique_values(mask)
    THEN Raise("ValueError", <<"Label value is not found in the mask provided.">>)
    ELSE IF mask.shape # ref_shape
    THEN Raise("TypeError",
               <<"Image mask dimension does not match with input 3D volume.",
                 mask.shape, ref_shape>>)
    ELSE NoError

\* CBFMapping._check_mask_values of reconstruction.py: no type check, a mask
\* that is no array has no value equal to the label
CBFMapping_check_mask_values(mask, label, input_vol_shape) ==
    IF label \notin unique_values(mask)
    THEN Raise("ValueError", <<"Label value is not found in the mask provided.">>)
    ELSE IF mask.shape # input_vol_shape
    THEN Raise("TypeError",
               <<"Image mask dimension does not match with input 3D volume.",
                 mask.shape, input_vol_shape>>)
    ELSE NoError

\* the comparison with label alone, without the product by label
binary_mask_no_label(mask, label) ==
    [v \in DOMAIN mask.data |-> IF mask.data[v] = label THEN 1 ELSE 0]

\* (brain_mask == label).astype(np.uint8) * label, labels within uint8
binary_mask(mask, label) ==
    [v \in DOMAIN mask.data |-> (IF mask.data[v] = label THEN 1 ELSE 0) * label]

(* ------------------------------ worker counts ------------------------- *)
\* a cores argument: its Python type and twice its value (1.5 is v2 = 3)
CoresInputs ==
    { [ty |-> "int", v2 |-> 2 * n] : n \in -1 .. CpuCount + 1 }
      \cup { [ty |-> "float", v2 |-> h] : h \in {-3, 2, 3} }
      \cup { [ty |-> "str", v2 |-> 0] }

DefaultCores == [ty |-> "int", v2 |-> 2 * CpuCount]

CoresMsg == "Number of proecess must be at least 1 and less than maximum cores availble."

\* if (cores < 0) or (cores > cpu_count()) or not isinstance(cores, int)
cores_check(cores) ==
    IF cores.ty = "str"
    THEN Raise("TypeError", <<"'<' not supported between instances of 'str' and 'int'">>)
    ELSE IF cores.v2 < 0 \/ cores.v2 > 2 * CpuCount \/ cores.ty # "int"
    THEN Raise("ValueError", <<CoresMsg>>)
    ELSE NoError

\* multiprocessing.Pool(processes=cores): the constructor's own checks
Pool_init(cores) ==
    IF cores.ty = "str"
    THEN Raise("TypeError", <<"'<' not supported between instances of 'str' and 'int'">>)
    ELSE IF cores.v2 < 2
    THEN Raise("ValueError", <<"Number of processes must be at least 1">>)
    ELSE IF cores.ty # "int"
    THEN Raise("TypeError", <<"'float' object cannot be interpreted as an integer">>)
    ELSE NoError

\* the test with `and` in place of `or`
ld_pld_check_both_empty(ld_, pld_) ==
    IF Len(ld_) = 0 /\ Len(pld_) = 0
    THEN Raise("ValueError", <<"LD or PLD list of values must be provided.">>)
    ELSE NoError

\* if len(get_ld()) == 0 or len(get_pld()) == 0
ld_pld_check(ld_, pld_) ==
    IF Len(ld_) = 0 \/ Len(pld_) = 0
    THEN Raise("ValueError", <<"LD or PLD list of values must be provided.">>)
    ELSE NoError

TimingInputs == {<<>>, <<18>>}

(* ------------------------------ ASLData ------------------------------- *)
\* a value of a parameter list: a number (int or float) or something else
Num(n) == [ty |-> "num", v |-> n]

NotANumber == [ty |-> "str", v |-> 0]

Values == {Num(1), Num(0), Num(-1), NotANumber}

\* the lists passed as ld_values, pld_values, te_values, dw_values: any value
\* after a run of valid ones
Lists ==
    {<<>>} \cup
    { [n \in 1 .. len |-> IF n < len THEN Num(1) ELSE e] :
          len \in 1 .. MaxListLen, e \in Values }

\* the TE/DW parameter: None until a list is stored
None == [set |-> FALSE, v |-> <<>>]

Some(l) == [set |-> TRUE, v |-> l]

\* te_values / dw_values of the constructor: absent (None) or a list
OptionalLists == {None} \cup {Some(l) : l \in {<<>>, <<Num(1)>>, <<Num(0)>>}}

\* the positions of `values` at which the loop of _check_input_parameter raises
BadPositions(values) ==
    {n \in 1 .. Len(values) : values[n].ty # "num" \/ values[n].v <= 0}

\* _check_input_parameter(values, param_type): the first value that is no
\* int or float, or is <= 0, raises
_check_input_parameter(values, param_type) ==
    LET bad == BadPositions(values)
    IN IF bad = {} THEN NoError
       ELSE LET n == CHOOSE m \in bad : \A o \in bad : m <= o
            IN IF values[n].ty # "num"
               THEN Raise("ValueError", <<param_type, "values is not a list of valid numbers.">>)
               ELSE Raise("ValueError", <<param_type, "values must be postive non zero numbers.">>)

\* the size test applied only when both lists hold values
_check_ld_pld_sizes_nonempty_only(ld_, pld_) ==
    IF Len(ld_) # 0 /\ Len(pld_) # 0 /\ Len(ld_) # Len(pld_)
    THEN Raise("ValueError",
               <<"LD and PLD must have the same array size.", Len(ld_), Len(pld_)>>)
    ELSE NoError

\* _check_ld_pld_sizes(ld, pld)
_check_ld_pld_sizes(ld_, pld_) ==
    IF Len(ld_) # Len(pld_)
    THEN Raise("ValueError",
               <<"LD and PLD must have the same array size.", Len(ld_), Len(pld_)>>)
    ELSE NoError

\* the ASLData object after an operation: built or not, and how the
\* operation ended
Built(op, args, err) ==
    [made |-> TRUE, op |-> op, args |-> args, exc |-> err.exc, msg |-> err.msg]

NotBuilt(op, args, err) ==
    [made |-> FALSE, op |-> op, args |-> args, exc |-> err.exc, msg |-> err.msg]


\* what an operation of T2Scalar_ASLMapping hands back: nothing, an array of
\* volumes, or a dict with its 't2' volumes and its 'mean_t2' list
NoValue == [is |-> "nothing", t2 |-> <<>>, mean_t2 |-> <<>>]

\* no T2Scalar_ASLMapping object
NoT2 == [made |-> FALSE, mapped |-> FALSE, op |-> "none", exc |-> "none",
         msg |-> <<>>, pld_indexes |-> <<>>, value |-> NoValue]

(* ------------------------------ smoothing ----------------------------- *)
\* smoothing= of create_map: None or a string
NoSelector == [ty |-> "NoneType", v |-> "None"]

Selector(name) == [ty |-> "str", v |-> name]

SmoothingInputs ==
    {NoSelector, Selector("gaussian"), Selector("median"), Selector("invalid")}

\* a value under 'size' or 'sigma' of smoothing_params, or no such key
Absent == [ty |-> "absent", v |-> 0]

ParamValues == {Absent, [ty |-> "int", v |-> 3], [ty |-> "int", v |-> 0],
                [ty |-> "float", v |-> 1]}

\* smoothing_params= of create_map: None, a dict, or something else
NoParams == [ty |-> "NoneType", size |-> Absent, sigma |-> Absent]

ParamsInputs ==
    {NoParams, [ty |-> "str", size |-> Absent, sigma |-> Absent]}
      \cup {[ty |-> "dict", size |-> a, sigma |-> b] :
               a \in ParamValues, b \in {Absent, [ty |-> "float", v |-> 1],
                                          [ty |-> "int", v |-> 1]}}

\* smoothing_params.get(key): truthy when the key is there with a non-zero value
Truthy(value) == value.ty # "absent" /\ value.v # 0

\* an entry of the maps dict: an image volume or any other value
ImageEntry(vol) == [image |-> TRUE, vol |-> vol]

OtherEntry == [image |-> FALSE, vol |-> <<>>]

\* the dicts of maps handed over: keys 'cbf' and possibly 'number'
MapsInputs ==
    {[key \in keys |-> IF key = "cbf" THEN ImageEntry(vol) ELSE OtherEntry] :
        keys \in {{"cbf"}, {"cbf", "number"}},
        vol \in {Zeros, Ones, [v \in Voxels |-> IF v = <<0, 0, 0>> THEN 1 ELSE 0]}}

\* the voxels next to v along an axis, with v itself
Neighbourhood(v) ==
    {u \in Voxels :
        (IF u[1] > v[1] THEN u[1] - v[1] ELSE v[1] - u[1])
          + (IF u[2] > v[2] THEN u[2] - v[2] ELSE v[2] - u[2])
          + (IF u[3] > v[3] THEN u[3] - v[3] ELSE v[3] - u[3]) <= 1}

RECURSIVE SumOver(_, _)
SumOver(vol, set) ==
    IF set = {} THEN 0
    ELSE LET u == CHOOSE w \in set : TRUE IN vol[u] + SumOver(vol, set \ {u})

\* isotropic_gaussian(data, sigma): a weighted mean around each voxel, a
\* refusal of a sigma that is not positive and of any other keyword
isotropic_gaussian(vol, params) ==
    IF params.size.ty # "absent"
    THEN [exc |-> "TypeError", vol |-> vol]
    ELSE IF params.sigma.ty # "absent" /\ params.sigma.v <= 0
    THEN [exc |-> "ValueError", vol |-> vol]
    ELSE [exc |-> "none",
          vol |-> [v \in Voxels |->
                    SumOver(vol, Neighbourhood(v)) \div Cardinality(Neighbourhood(v))]]

\* isotropic_median(data, size): the median around each voxel, a refusal of
\* a size that is not positive and of any other keyword
isotropic_median(vol, params) ==
    IF params.sigma.ty # "absent"
    THEN [exc |-> "TypeError", vol |-> vol]
    ELSE IF params.size.ty # "absent" /\ params.size.v <= 0
    THEN [exc |-> "ValueError", vol |-> vol]
    ELSE [exc |-> "none",
          vol |-> [v \in Voxels |->
                    CHOOSE x \in {vol[u] : u \in Neighbourhood(v)} :
                      /\ 2 * Cardinality({u \in Neighbourhood(v) : vol[u] <= x})
                            >= Cardinality(Neighbourhood(v))
                      /\ \A y \in {vol[u] : u \in Neighbourhood(v)} :
                            2 * Cardinality({u \in Neighbourhood(v) : vol[u] <= y})
                              >= Cardinality(Neighbourhood(v)) => x <= y]]

\* the result of a call: the exception or the dict returned, and the keys
\* for which a warning was issued
Smoothed(exc, msg, out, warned) ==
    [exc |-> exc, msg |-> msg, returned |-> exc = "none", out |-> out, warned |-> warned]

\* the checks of smoothing_params that open _apply_smoothing_to_maps
smoothing_params_check(smoothing_params) ==
    IF smoothing_params.ty \notin {"NoneType", "dict"}
    THEN Raise("TypeError", <<"smoothing_params must be a dictionary. Type", smoothing_params.ty>>)
    ELSE IF /\ smoothing_params.ty = "dict"
            /\ Truthy(smoothing_params.size)
            /\ smoothing_params.size.ty # "int"
    THEN Raise("TypeError", <<"Invalid smoothing parameter type. Size/Sigma must be an integer.">>)
    ELSE IF /\ smoothing_params.ty = "dict"
            /\ Truthy(smoothing_params.sigma)
            /\ smoothing_params.sigma.ty # "float"
    THEN Raise("TypeError", <<"Invalid smoothing parameter type. Size/Sigma must be a float.">>)
    ELSE NoError

\* the default parameters of a filter
default_params(smoothing) ==
    IF smoothing.v = "gaussian"
    THEN [ty |-> "dict", size |-> Absent, sigma |-> [ty |-> "float", v |-> 1]]
    ELSE IF smoothing.v = "median"
    THEN [ty |-> "dict", size |-> [ty |-> "int", v |-> 3], sigma |-> Absent]
    ELSE [ty |-> "dict", size |-> Absent, sigma |-> Absent]

\* the loop over maps.items(): a filter that raises leaves the original map
\* and a warning
smooth_all(maps, smoothing, params) ==
    LET run(vol) == IF smoothing.v = "gaussian" THEN isotropic_gaussian(vol, params)
                    ELSE isotropic_median(vol, params)
    IN Smoothed("none", <<>>,
                [key \in DOMAIN maps |->
                    IF maps[key].image /\ run(maps[key].vol).exc = "none"
                    THEN ImageEntry(run(maps[key].vol).vol)
                    ELSE maps[key]],
                {key \in DOMAIN maps : maps[key].image /\ run(maps[key].vol).exc # "none"})

\* an unsupported selector treated as no smoothing
_apply_smoothing_to_maps_passthrough(maps, smoothing, smoothing_params) ==
    LET err == smoothing_params_check(smoothing_params)
        params == IF smoothing_params.ty = "NoneType" THEN default_params(smoothing)
                  ELSE smoothing_params
    IN IF err # NoError THEN Smoothed(err.exc, err.msg, <<>>, {})
       ELSE IF smoothing.ty = "NoneType" THEN Smoothed("none", <<>>, maps, {})
       ELSE IF smoothing.v \notin {"gaussian", "median"}
       THEN Smoothed("none", <<>>, maps, {})
       ELSE smooth_all(maps, smoothing, params)

\* _apply_smoothing_to_maps(maps, smoothing, smoothing_params)
_apply_smoothing_to_maps(maps, smoothing, smoothing_params) ==
    LET err == smoothing_params_check(smoothing_params)
        params == IF smoothing_params.ty = "NoneType" THEN default_params(smoothing)
                  ELSE smoothing_params
    IN IF err # NoError THEN Smoothed(err.exc, err.msg, <<>>, {})
       ELSE IF smoothing.ty = "NoneType" THEN Smoothed("none", <<>>, maps, {})
       ELSE IF smoothing.v \notin {"gaussian", "median"}
       THEN Smoothed("ValueError",
                     <<"Unsupported smoothing type: ", smoothing.v,
                       ". Supported types are: None, 'gaussian', 'median'">>,
                     <<>>, {})
       ELSE smooth_all(maps, smoothing, params)

\* no call made yet
NoSmoothing == [called |-> FALSE, maps |-> <<>>, smoothing |-> NoSelector,
                params |-> NoParams, result |-> Smoothed("none", <<>>, <<>>, {})]

(* ------------------------------ state --------------------------------- *)
VARIABLES
    kind,        \* the orchestrator class the caller holds
    pcasl,       \* asl_data('pcasl') with asl_data('m0'): a signal per voxel
    ld, pld,     \* asl_data.get_ld(), asl_data.get_pld()
    te, dw,      \* asl_data.get_te(), asl_data.get_dw()
    asl,         \* the ASLData object: built or not, its last operation
    basic,       \* a CBFMapping object: _brain_mask, _cbf_map, _att_map
    mte,         \* a MultiTE_ASLMapping object, whose _basic_maps is basic
    pc,          \* where the caller's create_map stands
    call,        \* the create_map call in progress
    pool,        \* the worker pool: processes, and per chunk task and position
    g_cbf,       \* globals of cbf_mapping.py: brain_mask, cbf_map, att_map
    g_mte,       \* globals of multi_te_mapping.py
    progress,    \* advancement events of the progress task
    dispatched,  \* apply_async calls made by the call in progress
    last,        \* the last operation called, its arguments and how it ended
    ret,         \* the maps the last create_map returned
    prev,        \* the maps the create_map before that returned
    ncalls,      \* create_map calls made
    nsets,       \* set_brain_mask calls made
    shared,      \* the references that are self._basic_maps' own map arrays
    t2,          \* a T2Scalar_ASLMapping object and the last operation on it
    smooth       \* the last call of _apply_smoothing_to_maps and its outcome

vars == <<kind, pcasl, ld, pld, te, dw, asl, basic, mte, pc, call, pool, g_cbf, g_mte,
          progress, dispatched, last, ret, prev, ncalls, nsets, shared, t2,
          smooth>>

data == <<kind, pcasl, ld, pld, te, dw, asl, shared, t2, smooth>>

Pooled == "CBFMapping"
Sequential == "reconstruction.CBFMapping"
MultiTE == "MultiTE_ASLMapping"

LegacyMultiTE == "reconstruction.MultiTE_ASLMapping"

Kinds == {Pooled, Sequential, MultiTE}

MultiTEKinds == {MultiTE, LegacyMultiTE}

NoPool == [processes |-> 0,
           task |-> [i \in Chunks |-> "pending"],
           pos |-> [i \in Chunks |-> 0]]

NoCall == [top |-> "none", cores |-> DefaultCores]

NoResult == [valid |-> FALSE, mask |-> Zeros, cores |-> 0,
             cbf |-> Zeros, att |-> Zeros, t1blgm |-> Zeros]

Called(op, args, err) == [op |-> op, args |-> args, exc |-> err.exc, msg |-> err.msg]

InProgress == [exc |-> "running", msg |-> <<>>]

\* the constructors; the module globals start as None.  The sequential
\* create_map has no check of the timing lists: its images come with them.
\* A MultiTE object exists only on data with TE values
Init ==
    /\ kind \in Kinds
    /\ pcasl \in Images
    /\ ld \in TimingInputs
    /\ pld \in TimingInputs
    /\ kind = Sequential => Len(ld) > 0 /\ Len(pld) > 0
    /\ te = IF kind \in MultiTEKinds THEN Some(<<Num(1)>>) ELSE None
    /\ dw = None
    /\ asl = Built("__init__", <<>>, NoError)
    /\ basic = [brain_mask |-> Ones, cbf_map |-> Zeros, att_map |-> Zeros]
    /\ mte = [brain_mask |-> Ones, cbf_map |-> Zeros, att_map |-> Zeros,
              t1blgm_map |-> Zeros]
    /\ pc = "idle"
    /\ call = NoCall
    /\ pool = NoPool
    /\ g_cbf = [brain_mask |-> Zeros, cbf_map |-> ZeroBuffer, att_map |-> ZeroBuffer]
    /\ g_mte = [brain_mask |-> Zeros, cbf_map |-> Zeros, att_map |-> Zeros,
                tblgm_map |-> ZeroBuffer]
    /\ progress = 0
    /\ dispatched = 0
    /\ last = Called("__init__", <<>>, NoError)
    /\ ret = NoResult
    /\ prev = NoResult
    /\ ncalls = 0
    /\ nsets = 0
    /\ shared = {}
    /\ t2 = NoT2
    /\ smooth = NoSmoothing

(* ------------------------------ the pool ------------------------------ *)
Finished(t) == t \in {"done", "failed"}

Running(pl) == {i \in Chunks : pl.task[i] = "running"}

\* only the first tasks, one per worker, are ever taken
RunnableFirstBatch(pl, i) ==
    \/ pl.task[i] = "running"
    \/ pl.task[i] = "pending" /\ i < pl.processes

\* an idle worker takes the tasks in the order of their submission
Runnable(pl, i) ==
    \/ pl.task[i] = "running"
    \/ /\ pl.task[i] = "pending"
       /\ \A h \in Chunks : h < i => pl.task[h] # "pending"
       /\ Cardinality(Running(pl)) < pl.processes

\* the loops of a chunk move on to the next voxel; after the last one the
\* task returns
Advance(pl, i) ==
    LET p == pl.pos[i] + 1
    IN [pl EXCEPT !.pos[i] = p,
                  !.task[i] = IF p = ChunkLen THEN "done" ELSE "running"]

\* an exception leaves the task: the loops stop at this voxel
Abort(pl, i) == [pl EXCEPT !.task[i] = "failed"]

\* a wait on the first result only
AllResultsReadyFirstOnly(pl) == Finished(pl.task[0])

\* for result in results: result.wait()
AllResultsReady(pl) == \A i \in Chunks : Finished(pl.task[i])

\* Pool(processes=cores, ...) and the apply_async of every chunk
NewPool(cores) ==
    [processes |-> cores.v2 \div 2,
     task |-> [i \in Chunks |-> "pending"],
     pos |-> [i \in Chunks |-> 0]]

\* the advancement on every task that ends, also with an exception
AdvancedOnFinish(pl, i, n) == IF Finished(pl.task[i]) THEN n + 1 ELSE n

\* callback=lambda _: progress.update(task, advance=1), on a task's return
Advanced(pl, i, n) == IF pl.task[i] = "done" THEN n + 1 ELSE n

(* ------------------------------ CBFMapping ---------------------------- *)
\* set_brain_mask(brain_mask, label) of the three classes: the mask gate,
\* then the binary mask stored in the object the caller holds
set_brain_mask(mask, label) ==
    /\ pc = "idle"
    /\ ncalls < MaxCalls
    /\ nsets < MaxMaskSets
    /\ nsets' = nsets + 1
    /\ LET err == IF kind \in {Sequential, LegacyMultiTE}
                  THEN CBFMapping_check_mask_values(mask, label, Shape)
                  ELSE _check_mask_values(mask, label, Shape)
       IN /\ last' = Called("set_brain_mask", [mask |-> mask, label |-> label], err)
          /\ basic' = IF err = NoError /\ kind \notin MultiTEKinds
                      THEN [basic EXCEPT !.brain_mask = binary_mask(mask, label)]
                      ELSE basic
          /\ mte' = IF err = NoError /\ kind \in MultiTEKinds
                    THEN [mte EXCEPT !.brain_mask = binary_mask(mask, label)]
                    ELSE mte
    /\ UNCHANGED <<data, pc, call, pool, g_cbf, g_mte, progress, dispatched,
                   ret, prev, ncalls>>

\* the first error of CBFMapping.create_map up to the creation of the pool
CBF_create_map_error(cores) ==
    IF cores_check(cores) # NoError THEN cores_check(cores)
    ELSE IF ld_pld_check(ld, pld) # NoError THEN ld_pld_check(ld, pld)
    ELSE Pool_init(cores)

\* the globals with the buffers of the call before kept in use
CBF_globals_reused(b) == [brain_mask |-> b.brain_mask,
                          cbf_map |-> g_cbf.cbf_map, att_map |-> g_cbf.att_map]

\* the module globals after "global asl_data, brain_mask" were assigned, the
\* buffers after Array('d', z_axis * y_axis * x_axis): zeroed
CBF_globals(b) == [brain_mask |-> b.brain_mask,
                   cbf_map |-> ZeroBuffer, att_map |-> ZeroBuffer]

\* what a create_map that raises at the creation of the pool leaves behind
CBF_globals_on_error(cores, b) ==
    IF cores_check(cores) = NoError /\ ld_pld_check(ld, pld) = NoError
    THEN [g_cbf EXCEPT !.brain_mask = b.brain_mask]
    ELSE g_cbf

\* CBFMapping.create_map(cores=cores) up to the dispatch of the chunks
CBF_create_map(cores) ==
    /\ pc = "idle"
    /\ kind = Pooled
    /\ ncalls < MaxCalls
    /\ ncalls' = ncalls + 1
    /\ LET err == CBF_create_map_error(cores)
       IN IF err # NoError
          THEN /\ last' = Called("create_map", cores, err)
               /\ dispatched' = 0
               /\ g_cbf' = CBF_globals_on_error(cores, basic)
               /\ UNCHANGED <<pc, call, pool, progress>>
          ELSE /\ last' = Called("create_map", cores, InProgress)
               /\ g_cbf' = CBF_globals(basic)
               /\ pool' = NewPool(cores)
               /\ call' = [top |-> Pooled, cores |-> cores]
               /\ progress' = 0
               /\ dispatched' = x_axis
               /\ pc' = "cbf_pool"
    /\ UNCHANGED <<data, basic, mte, g_mte, ret, prev, nsets>>

\* the voxel step without the except RuntimeError clause
CBF_voxel_no_except(i) ==
    LET v == VoxelAt(i, pool.pos[i])
        index == Index(v[1], v[2], v[3])
        fit == curve_fit_buxton(pcasl[v])
    IN IF g_cbf.brain_mask[v] = 0
       THEN [g |-> g_cbf, pl |-> Advance(pool, i)]
       ELSE IF fit.exc = "none"
       THEN [g |-> [g_cbf EXCEPT !.cbf_map[index] = fit.par[1],
                                 !.att_map[index] = fit.par[2]],
             pl |-> Advance(pool, i)]
       ELSE [g |-> g_cbf, pl |-> Abort(pool, i)]

\* one voxel of _cbf_process_slice(i, ...): the shared buffers and the task
\* after it
CBF_voxel(i) ==
    LET v == VoxelAt(i, pool.pos[i])
        index == Index(v[1], v[2], v[3])
        fit == curve_fit_buxton(pcasl[v])
    IN IF g_cbf.brain_mask[v] = 0
       THEN [g |-> g_cbf, pl |-> Advance(pool, i)]
       ELSE IF fit.exc = "none"
       THEN [g |-> [g_cbf EXCEPT !.cbf_map[index] = fit.par[1],
                                 !.att_map[index] = fit.par[2]],
             pl |-> Advance(pool, i)]
       ELSE IF fit.exc = "RuntimeError"
       THEN [g |-> [g_cbf EXCEPT !.cbf_map[index] = 0, !.att_map[index] = 0],
             pl |-> Advance(pool, i)]
       ELSE [g |-> g_cbf, pl |-> Abort(pool, i)]

\* a worker of the pool runs one more voxel of chunk i
_cbf_process_slice(i) ==
    /\ pc = "cbf_pool"
    /\ Runnable(pool, i)
    /\ g_cbf' = CBF_voxel(i).g
    /\ pool' = CBF_voxel(i).pl
    /\ progress' = Advanced(pool', i, progress)
    /\ UNCHANGED <<data, basic, mte, pc, call, g_mte, dispatched, last, ret,
                   prev, ncalls, nsets>>

\* the buffers added to the maps already stored
CBF_result_accumulated ==
    [valid |-> TRUE, mask |-> basic.brain_mask, cores |-> pool.processes,
     cbf |-> [v \in Voxels |-> basic.cbf_map[v] + reshape(g_cbf.cbf_map)[v]],
     att |-> [v \in Voxels |-> basic.att_map[v] + reshape(g_cbf.att_map)[v]],
     t1blgm |-> Zeros]

\* the maps create_map stores and returns once the waits are over
CBF_result ==
    [valid |-> TRUE, mask |-> basic.brain_mask, cores |-> pool.processes,
     cbf |-> reshape(g_cbf.cbf_map), att |-> reshape(g_cbf.att_map),
     t1blgm |-> Zeros]

\* CBFMapping.create_map from the end of the waits to its return
CBF_create_map_return ==
    /\ pc = "cbf_pool"
    /\ call.top = Pooled
    /\ AllResultsReady(pool)
    /\ basic' = [basic EXCEPT !.cbf_map = CBF_result.cbf, !.att_map = CBF_result.att]
    /\ ret' = CBF_result
    /\ prev' = ret
    /\ last' = [last EXCEPT !.exc = "none"]
    /\ pc' = "idle"
    /\ call' = NoCall
    /\ pool' = NoPool
    /\ UNCHANGED <<data, mte, g_cbf, g_mte, progress, dispatched, ncalls, nsets>>

(* --------------------- CBFMapping of reconstruction.py ---------------- *)
\* one voxel of the loops of the sequential create_map, which write into
\* self._cbf_map and self._att_map themselves
SEQ_voxel(n, st) ==
    LET v == VoxelAt(n \div ChunkLen, n % ChunkLen)
        fit == curve_fit_buxton(pcasl[v])
    IN IF basic.brain_mask[v] = 0 THEN st
       ELSE IF fit.exc = "none"
       THEN [st EXCEPT !.cbf[v] = fit.par[1], !.att[v] = fit.par[2]]
       ELSE IF fit.exc = "RuntimeError"
       THEN [st EXCEPT !.cbf[v] = 0, !.att[v] = 0]
       ELSE [st EXCEPT !.exc = fit.exc]

RECURSIVE SEQ_loops(_, _)
SEQ_loops(n, st) ==
    IF n = FlatSize \/ st.exc # "none" THEN st
    ELSE SEQ_loops(n + 1, SEQ_voxel(n, st))

\* CBFMapping.create_map() of reconstruction.py: the caller's thread runs
\* every voxel; an exception other than RuntimeError leaves the call.  The
\* maps returned are the object's own arrays, so an earlier result shows
\* what a later call writes
SEQ_create_map ==
    /\ pc = "idle"
    /\ kind = Sequential
    /\ ncalls < MaxCalls
    /\ ncalls' = ncalls + 1
    /\ LET st == SEQ_loops(0, [cbf |-> basic.cbf_map, att |-> basic.att_map,
                               exc |-> "none"])
       IN /\ basic' = [basic EXCEPT !.cbf_map = st.cbf, !.att_map = st.att]
          /\ IF st.exc = "none"
             THEN /\ ret' = [valid |-> TRUE, mask |-> basic.brain_mask, cores |-> 1,
                             cbf |-> st.cbf, att |-> st.att, t1blgm |-> Zeros]
                  /\ prev' = IF ret.valid
                             THEN [ret EXCEPT !.cbf = st.cbf, !.att = st.att]
                             ELSE ret
                  /\ last' = Called("create_map", <<>>, NoError)
             ELSE /\ ret' = IF ret.valid
                            THEN [ret EXCEPT !.cbf = st.cbf, !.att = st.att]
                            ELSE ret
                  /\ prev' = IF prev.valid
                             THEN [prev EXCEPT !.cbf = st.cbf, !.att = st.att]
                             ELSE prev
                  /\ last' = Called("create_map", <<>>,
                                    Raise(st.exc, <<"array must not contain infs or NaNs">>))
    /\ UNCHANGED <<data, mte, pc, call, pool, g_cbf, g_mte, progress,
                   dispatched, nsets>>

(* ------------------------------ MultiTE_ASLMapping -------------------- *)
RECURSIVE sum_upto(_, _)
sum_upto(map, n) ==
    IF n = 0 THEN 0
    ELSE sum_upto(map, n - 1)
           + map[<<(n - 1) \div (y_axis * x_axis), ((n - 1) \div x_axis) % y_axis,
                   (n - 1) % x_axis>>]

\* np.mean(map) == 0
mean_is_zero(map) == sum_upto(map, FlatSize) = 0

\* self._brain_mask as the argument of self._basic_maps.set_brain_mask
as_input(brain_mask) == [type |-> "array", shape |-> Shape, data |-> brain_mask]

\* the module globals of multi_te_mapping.py after they were assigned, and
\* the buffer after Array('d', z_axis * y_axis * x_axis)
MTE_globals(m) == [brain_mask |-> m.brain_mask, cbf_map |-> m.cbf_map,
                   att_map |-> m.att_map, tblgm_map |-> ZeroBuffer]

\* MultiTE_ASLMapping.create_map from the assignment of the globals to the
\* dispatch of the chunks; m is the object with the CBF/ATT maps it has by
\* then, d the apply_async calls made so far
MTE_dispatch(cores, m, d) ==
    LET err == Pool_init(cores)
    IN /\ mte' = m
       /\ IF err # NoError
          THEN /\ last' = Called("create_map", cores, err)
               /\ g_mte' = [MTE_globals(m) EXCEPT !.tblgm_map = g_mte.tblgm_map]
               /\ pc' = "idle"
               /\ call' = NoCall
               /\ pool' = NoPool
               /\ dispatched' = d
               /\ UNCHANGED progress
          ELSE /\ last' = Called("create_map", cores, InProgress)
               /\ g_mte' = MTE_globals(m)
               /\ pc' = "mte_pool"
               /\ call' = [top |-> MultiTE, cores |-> cores]
               /\ pool' = NewPool(cores)
               /\ dispatched' = d + x_axis
               /\ progress' = 0

\* MultiTE_ASLMapping.create_map(cores=cores) up to its first dispatch: the
\* mask goes to self._basic_maps with the default label 1; without CBF/ATT
\* maps, self._basic_maps.create_map() runs with its default cores
MTE_create_map(cores) ==
    /\ pc = "idle"
    /\ kind = MultiTE
    /\ ncalls < MaxCalls
    /\ ncalls' = ncalls + 1
    /\ LET err1 == _check_mask_values(as_input(mte.brain_mask), 1, Shape)
           b1 == [basic EXCEPT !.brain_mask = binary_mask(as_input(mte.brain_mask), 1)]
           err2 == CBF_create_map_error(DefaultCores)
       IN IF err1 # NoError
          THEN /\ last' = Called("create_map", cores, err1)
               /\ dispatched' = 0
               /\ UNCHANGED <<basic, mte, pc, call, pool, g_cbf, g_mte, progress>>
          ELSE IF mean_is_zero(mte.cbf_map) \/ mean_is_zero(mte.att_map)
          THEN /\ basic' = b1
               /\ IF err2 # NoError
                  THEN /\ last' = Called("create_map", cores, err2)
                       /\ dispatched' = 0
                       /\ g_cbf' = CBF_globals_on_error(DefaultCores, b1)
                       /\ UNCHANGED <<mte, pc, call, pool, g_mte, progress>>
                  ELSE /\ last' = Called("create_map", cores, InProgress)
                       /\ g_cbf' = CBF_globals(b1)
                       /\ pool' = NewPool(DefaultCores)
                       /\ call' = [top |-> MultiTE, cores |-> cores]
                       /\ progress' = 0
                       /\ dispatched' = x_axis
                       /\ pc' = "cbf_pool"
                       /\ UNCHANGED <<mte, g_mte>>
          ELSE /\ basic' = b1
               /\ MTE_dispatch(cores, mte, 0)
               /\ UNCHANGED g_cbf
    /\ UNCHANGED <<data, ret, prev, nsets>>

\* the return of self._basic_maps.create_map() into MultiTE create_map,
\* which stores the maps and goes on to its own dispatch
MTE_basic_maps_return ==
    /\ pc = "cbf_pool"
    /\ call.top = MultiTE
    /\ AllResultsReady(pool)
    /\ basic' = [basic EXCEPT !.cbf_map = CBF_result.cbf, !.att_map = CBF_result.att]
    /\ MTE_dispatch(call.cores,
                    [mte EXCEPT !.cbf_map = CBF_result.cbf, !.att_map = CBF_result.att],
                    dispatched)
    /\ UNCHANGED <<data, g_cbf, ret, prev, ncalls, nsets>>

\* one voxel of _tblgm_multite_process_slice(i, ...)
MTE_voxel(i) ==
    LET v == VoxelAt(i, pool.pos[i])
        index == Index(v[1], v[2], v[3])
        fit == curve_fit_multite(pcasl[v], g_mte.cbf_map[v], g_mte.att_map[v])
    IN IF g_mte.brain_mask[v] = 0
       THEN [g |-> g_mte, pl |-> Advance(pool, i)]
       ELSE IF fit.exc = "none"
       THEN [g |-> [g_mte EXCEPT !.tblgm_map[index] = fit.par[1]],
             pl |-> Advance(pool, i)]
       ELSE IF fit.exc = "RuntimeError"
       THEN [g |-> [g_mte EXCEPT !.tblgm_map[index] = 0], pl |-> Advance(pool, i)]
       ELSE [g |-> g_mte, pl |-> Abort(pool, i)]

\* a worker of the pool runs one more voxel of chunk i
_tblgm_multite_process_slice(i) ==
    /\ pc = "mte_pool"
    /\ Runnable(pool, i)
    /\ g_mte' = MTE_voxel(i).g
    /\ pool' = MTE_voxel(i).pl
    /\ progress' = Advanced(pool', i, progress)
    /\ UNCHANGED <<data, basic, mte, pc, call, g_cbf, dispatched, last, ret,
                   prev, ncalls, nsets>>

\* the maps MultiTE create_map stores and returns once the waits are over
MTE_result ==
    [valid |-> TRUE, mask |-> mte.brain_mask, cores |-> pool.processes,
     cbf |-> mte.cbf_map, att |-> mte.att_map,
     t1blgm |-> _adjust_image_limits(reshape(g_mte.tblgm_map), T1blGM_par0)]

\* MultiTE_ASLMapping.create_map from the end of the waits to its return
MTE_create_map_return ==
    /\ pc = "mte_pool"
    /\ AllResultsReady(pool)
    /\ mte' = [mte EXCEPT !.t1blgm_map = MTE_result.t1blgm]
    /\ ret' = MTE_result
    /\ prev' = ret
    /\ last' = [last EXCEPT !.exc = "none"]
    /\ pc' = "idle"
    /\ call' = NoCall
    /\ pool' = NoPool
    /\ UNCHANGED <<data, basic, g_cbf, g_mte, progress, dispatched, ncalls, nsets>>

(* ---------- supplied maps; MultiTE_ASLMapping of reconstruction.py ---- *)
OneVoxel == [v \in Voxels |-> IF v = <<0, 0, 0>> THEN 1 ELSE 0]

\* the maps a caller supplies: all zero, non-zero everywhere, and non-zero
\* at one voxel only, whose mean lies between 0 and 1
SuppliedMaps == {Zeros, Ones, OneVoxel}

\* set_cbf_map(cbf_map): the object keeps the caller's array
set_cbf_map(cbf_map) ==
    /\ pc = "idle"
    /\ kind \in MultiTEKinds
    /\ ncalls < MaxCalls
    /\ mte' = [mte EXCEPT !.cbf_map = cbf_map]
    /\ shared' = shared \ {"mte.cbf"}
    /\ last' = Called("set_cbf_map", cbf_map, NoError)
    /\ UNCHANGED <<kind, pcasl, ld, pld, te, dw, asl, basic, pc, call, pool,
                   g_cbf, g_mte, progress, dispatched, ret, prev, ncalls, nsets,
                   t2, smooth>>

\* set_att_map(att_map)
set_att_map(att_map) ==
    /\ pc = "idle"
    /\ kind \in MultiTEKinds
    /\ ncalls < MaxCalls
    /\ mte' = [mte EXCEPT !.att_map = att_map]
    /\ shared' = shared \ {"mte.att"}
    /\ last' = Called("set_att_map", att_map, NoError)
    /\ UNCHANGED <<kind, pcasl, ld, pld, te, dw, asl, basic, pc, call, pool,
                   g_cbf, g_mte, progress, dispatched, ret, prev, ncalls, nsets,
                   t2, smooth>>

\* the mean of a map with its fraction dropped, as the conversion to an
\* integer type drops it
truncated_mean(map) ==
    LET s == sum_upto(map, FlatSize)
    IN IF s >= 0 THEN s \div FlatSize ELSE -((-s) \div FlatSize)

\* np.int8(np.mean(map)) == np.int8(0): the outcomes of the comparison; the
\* conversion of a mean outside the range of int8 is undefined
int8_mean_is_zero(map) ==
    IF truncated_mean(map) \in -128 .. 127
    THEN {truncated_mean(map) = 0}
    ELSE BOOLEAN

\* one voxel of the loops of the sequential MultiTE create_map, which read
\* basic_maps and write into self._t1blgm_map itself
LMTE_voxel(n, st) ==
    LET v == VoxelAt(n \div ChunkLen, n % ChunkLen)
        fit == curve_fit_multite(pcasl[v], st.cbf[v], st.att[v])
    IN IF mte.brain_mask[v] = 0 THEN st
       ELSE IF fit.exc = "none" THEN [st EXCEPT !.t1blgm[v] = fit.par[1]]
       ELSE IF fit.exc = "RuntimeError" THEN [st EXCEPT !.t1blgm[v] = 0]
       ELSE [st EXCEPT !.exc = fit.exc]

RECURSIVE LMTE_loops(_, _)
LMTE_loops(n, st) ==
    IF n = FlatSize \/ st.exc # "none" THEN st
    ELSE LMTE_loops(n + 1, LMTE_voxel(n, st))

\* the value a reference shows after arrays were written in place
Seen(name, old, new) == IF name \in shared THEN new ELSE old

\* the references that are self._basic_maps' own arrays once create_map has
\* returned: the result before becomes the one before that, the stored maps
\* are the new result
SharedOnReturn(sh) ==
    {n \in sh : n \in {"mte.cbf", "mte.att"}}
      \cup (IF "ret.cbf" \in sh THEN {"prev.cbf"} ELSE {})
      \cup (IF "ret.att" \in sh THEN {"prev.att"} ELSE {})
      \cup (IF "mte.cbf" \in sh THEN {"ret.cbf"} ELSE {})
      \cup (IF "mte.att" \in sh THEN {"ret.att"} ELSE {})

\* MultiTE_ASLMapping.create_map() of reconstruction.py: a CBFMapping of its
\* own gets the mask, self._basic_maps runs when a truncated mean is zero,
\* then the caller's thread fits every voxel.  zero_cbf and zero_att are the
\* outcomes of the two comparisons
LegacyMTE_create_map(zero_cbf, zero_att) ==
    /\ pc = "idle"
    /\ kind = LegacyMultiTE
    /\ ncalls < MaxCalls
    /\ ncalls' = ncalls + 1
    /\ LET err1 == CBFMapping_check_mask_values(as_input(mte.brain_mask), 1, Shape)
           rerun == zero_cbf \/ zero_att
           s1 == IF rerun
                 THEN SEQ_loops(0, [cbf |-> basic.cbf_map, att |-> basic.att_map,
                                    exc |-> "none"])
                 ELSE [cbf |-> mte.cbf_map, att |-> mte.att_map, exc |-> "none"]
           b1 == IF rerun
                 THEN [basic EXCEPT !.cbf_map = s1.cbf, !.att_map = s1.att]
                 ELSE basic
           stored == rerun /\ s1.exc = "none"
           sh1 == IF stored THEN shared \cup {"mte.cbf", "mte.att"} ELSE shared
           s2 == IF s1.exc = "none"
                 THEN LMTE_loops(0, [cbf |-> s1.cbf, att |-> s1.att,
                                     t1blgm |-> mte.t1blgm_map, exc |-> "none"])
                 ELSE [cbf |-> s1.cbf, att |-> s1.att,
                       t1blgm |-> mte.t1blgm_map, exc |-> s1.exc]
           m1 == [mte EXCEPT
                    !.cbf_map = IF stored THEN s1.cbf
                                ELSE Seen("mte.cbf", mte.cbf_map, b1.cbf_map),
                    !.att_map = IF stored THEN s1.att
                                ELSE Seen("mte.att", mte.att_map, b1.att_map),
                    !.t1blgm_map = s2.t1blgm]
           ret1 == IF ret.valid
                   THEN [ret EXCEPT !.cbf = Seen("ret.cbf", ret.cbf, b1.cbf_map),
                                    !.att = Seen("ret.att", ret.att, b1.att_map),
                                    !.t1blgm = s2.t1blgm]
                   ELSE ret
           prev1 == IF prev.valid
                    THEN [prev EXCEPT !.cbf = Seen("prev.cbf", prev.cbf, b1.cbf_map),
                                      !.att = Seen("prev.att", prev.att, b1.att_map),
                                      !.t1blgm = s2.t1blgm]
                    ELSE prev
       IN IF err1 # NoError
          THEN /\ last' = Called("create_map", <<>>, err1)
               /\ UNCHANGED <<basic, mte, ret, prev, shared>>
          ELSE /\ zero_cbf \in int8_mean_is_zero(mte.cbf_map)
               /\ zero_att \in int8_mean_is_zero(mte.att_map)
               /\ basic' = b1
               /\ mte' = m1
               /\ IF s2.exc = "none"
                  THEN /\ ret' = [valid |-> TRUE, mask |-> mte.brain_mask, cores |-> 1,
                                  cbf |-> m1.cbf_map, att |-> m1.att_map,
                                  t1blgm |-> s2.t1blgm]
                       /\ prev' = ret1
                       /\ shared' = SharedOnReturn(sh1)
                       /\ last' = Called("create_map", <<>>, NoError)
                  ELSE /\ ret' = ret1
                       /\ prev' = prev1
                       /\ shared' = sh1
                       /\ last' = Called("create_map", <<>>,
                                         Raise(s2.exc, <<"array must not contain infs or NaNs">>))
    /\ UNCHANGED <<kind, pcasl, ld, pld, te, dw, asl, pc, call, pool, g_cbf, g_mte,
                   progress, dispatched, nsets, t2, smooth>>


(* ------------------------------ behaviours ---------------------------- *)
Next ==
    \/ \E mask \in MaskInputs, label \in Labels : set_brain_mask(mask, label)
    \/ \E cores \in CoresInputs : CBF_create_map(cores)
    \/ \E i \in Chunks : _cbf_process_slice(i)
    \/ CBF_create_map_return
    \/ SEQ_create_map
    \/ \E cores \in CoresInputs : MTE_create_map(cores)
    \/ MTE_basic_maps_return
    \/ \E i \in Chunks : _tblgm_multite_process_slice(i)
    \/ MTE_create_map_return

Spec == Init /\ [][Next]_vars

\* the scheduling of a run: a worker process that holds a task keeps
\* executing it, an idle worker takes the next queued task, and the thread
\* blocked in result.wait() goes on once the results are there
Scheduling ==
    /\ \A i \in Chunks : WF_vars(_cbf_process_slice(i))
    /\ \A i \in Chunks : WF_vars(_tblgm_multite_process_slice(i))
    /\ WF_vars(CBF_create_map_return)
    /\ WF_vars(MTE_basic_maps_return)
    /\ WF_vars(MTE_create_map_return)

FairSpec == Init /\ [][Next]_vars /\ Scheduling

\* the two MultiTE classes with maps supplied by the caller: complete timing
\* lists, the mask of the constructor, no map supplied yet
SuppliedInit ==
    /\ kind \in MultiTEKinds
    /\ pcasl \in Images
    /\ ld = <<18>>
    /\ pld = <<18>>
    /\ te = IF kind \in MultiTEKinds THEN Some(<<Num(1)>>) ELSE None
    /\ dw = None
    /\ asl = Built("__init__", <<>>, NoError)
    /\ basic = [brain_mask |-> Ones, cbf_map |-> Zeros, att_map |-> Zeros]
    /\ mte = [brain_mask |-> Ones, cbf_map |-> Zeros, att_map |-> Zeros,
              t1blgm_map |-> Zeros]
    /\ pc = "idle"
    /\ call = NoCall
    /\ pool = NoPool
    /\ g_cbf = [brain_mask |-> Zeros, cbf_map |-> ZeroBuffer, att_map |-> ZeroBuffer]
    /\ g_mte = [brain_mask |-> Zeros, cbf_map |-> Zeros, att_map |-> Zeros,
                tblgm_map |-> ZeroBuffer]
    /\ progress = 0
    /\ dispatched = 0
    /\ last = Called("__init__", <<>>, NoError)
    /\ ret = NoResult
    /\ prev = NoResult
    /\ ncalls = 0
    /\ nsets = 0
    /\ shared = {}
    /\ t2 = NoT2
    /\ smooth = NoSmoothing

SuppliedNext ==
    \/ \E cbf_map \in SuppliedMaps : set_cbf_map(cbf_map)
    \/ \E att_map \in SuppliedMaps : set_att_map(att_map)
    \/ \E cores \in CoresInputs : MTE_create_map(cores)
    \/ \E i \in Chunks : _cbf_process_slice(i)
    \/ MTE_basic_maps_return
    \/ \E i \in Chunks : _tblgm_multite_process_slice(i)
    \/ MTE_create_map_return
    \/ \E zero_cbf \in BOOLEAN, zero_att \in BOOLEAN :
          LegacyMTE_create_map(zero_cbf, zero_att)

SuppliedSpec == SuppliedInit /\ [][SuppliedNext]_vars

(* ------------------------------ ASLData operations -------------------- *)
\* the mapping objects do not exist while the ASLData object is exercised
mapping == <<kind, pcasl, basic, mte, pc, call, pool, g_cbf, g_mte, progress,
             dispatched, last, ret, prev, ncalls, nsets, shared, t2, smooth>>

ASLInit ==
    /\ kind = Pooled
    /\ pcasl = BasePattern
    /\ ld = <<>>
    /\ pld = <<>>
    /\ te = None
    /\ dw = None
    /\ asl = NotBuilt("none", <<>>, NoError)
    /\ basic = [brain_mask |-> Ones, cbf_map |-> Zeros, att_map |-> Zeros]
    /\ mte = [brain_mask |-> Ones, cbf_map |-> Zeros, att_map |-> Zeros,
              t1blgm_map |-> Zeros]
    /\ pc = "idle"
    /\ call = NoCall
    /\ pool = NoPool
    /\ g_cbf = [brain_mask |-> Zeros, cbf_map |-> ZeroBuffer, att_map |-> ZeroBuffer]
    /\ g_mte = [brain_mask |-> Zeros, cbf_map |-> Zeros, att_map |-> Zeros,
                tblgm_map |-> ZeroBuffer]
    /\ progress = 0
    /\ dispatched = 0
    /\ last = Called("none", <<>>, NoError)
    /\ ret = NoResult
    /\ prev = NoResult
    /\ ncalls = 0
    /\ nsets = 0
    /\ shared = {}
    /\ t2 = NoT2
    /\ smooth = NoSmoothing

\* ASLData(ld_values=..., pld_values=..., te_values=..., dw_values=...)
ASLData_init(ld_values, pld_values, te_values, dw_values) ==
    /\ ~asl.made
    /\ LET err == _check_ld_pld_sizes(ld_values, pld_values)
           args == [ld_values |-> ld_values, pld_values |-> pld_values,
                    te_values |-> te_values, dw_values |-> dw_values]
       IN IF err # NoError
          THEN /\ asl' = NotBuilt("__init__", args, err)
               /\ UNCHANGED <<ld, pld, te, dw>>
          ELSE /\ asl' = Built("__init__", args, NoError)
               /\ ld' = ld_values
               /\ pld' = pld_values
               /\ te' = IF te_values.set /\ Len(te_values.v) > 0 THEN te_values ELSE None
               /\ dw' = IF dw_values.set /\ Len(dw_values.v) > 0 THEN dw_values ELSE None
    /\ UNCHANGED mapping

set_ld(ld_values) ==
    /\ asl.made
    /\ LET err == _check_input_parameter(ld_values, "LD")
       IN /\ asl' = Built("set_ld", ld_values, err)
          /\ ld' = IF err = NoError THEN ld_values ELSE ld
    /\ UNCHANGED <<pld, te, dw>>
    /\ UNCHANGED mapping

set_pld(pld_values) ==
    /\ asl.made
    /\ LET err == _check_input_parameter(pld_values, "PLD")
       IN /\ asl' = Built("set_pld", pld_values, err)
          /\ pld' = IF err = NoError THEN pld_values ELSE pld
    /\ UNCHANGED <<ld, te, dw>>
    /\ UNCHANGED mapping

set_te(te_values) ==
    /\ asl.made
    /\ LET err == _check_input_parameter(te_values, "TE")
       IN /\ asl' = Built("set_te", te_values, err)
          /\ te' = IF err = NoError THEN Some(te_values) ELSE te
    /\ UNCHANGED <<ld, pld, dw>>
    /\ UNCHANGED mapping

set_dw(dw_values) ==
    /\ asl.made
    /\ LET err == _check_input_parameter(dw_values, "DW")
       IN /\ asl' = Built("set_dw", dw_values, err)
          /\ dw' = IF err = NoError THEN Some(dw_values) ELSE dw
    /\ UNCHANGED <<ld, pld, te>>
    /\ UNCHANGED mapping

ASLNext ==
    \/ \E l \in Lists, p \in Lists, t \in OptionalLists, d \in OptionalLists :
          ASLData_init(l, p, t, d)
    \/ \E l \in Lists : set_ld(l)
    \/ \E l \in Lists : set_pld(l)
    \/ \E l \in Lists : set_te(l)
    \/ \E l \in Lists : set_dw(l)

ASLSpec == ASLInit /\ [][ASLNext]_vars

(* ------------------------------ T2Scalar_ASLMapping ------------------- *)
\* T2Scalar_ASLMapping(asl_data): only a descriptor without a TE list is
\* refused; the object keeps the PLD list and a zeroed 3-D map
T2Scalar_init ==
    /\ asl.made
    /\ ~t2.made
    /\ t2' = IF ~te.set
             THEN [NoT2 EXCEPT
                     !.op = "__init__", !.exc = "ValueError",
                     !.msg = <<"ASLData is incomplete. T2Scalar_ASLMapping need a list of TE values.">>]
             ELSE [made |-> TRUE, mapped |-> FALSE, op |-> "__init__",
                   exc |-> "none", msg |-> <<>>,
                   pld_indexes |-> pld, value |-> NoValue]
    /\ UNCHANGED <<ld, pld, te, dw, asl>>
    /\ UNCHANGED <<kind, pcasl, basic, mte, pc, call, pool, g_cbf, g_mte, progress,
                   dispatched, last, ret, prev, ncalls, nsets, shared, smooth>>

\* the attributes the class and its constructor define
T2ScalarAttributes ==
    {"_asl_data", "_brain_mask", "_pld_indexes", "_t2_map", "set_brain_mask",
     "get_brain_mask", "get_t2_map", "create_map", "_adjust_image_limits"}

\* the attributes the callers of the class read
T2ScalarNames == {"get_t2_map", "get_t2_maps", "get_mean_t2s", "_t2_maps", "_mean_t2s"}

\* the lookup of self.<name>
T2Scalar_getattr(name) ==
    IF name \in T2ScalarAttributes
    THEN [exc |-> "none", msg |-> <<>>]
    ELSE [exc |-> "AttributeError",
          msg |-> <<"'T2Scalar_ASLMapping' object has no attribute", name>>]

\* t2.<name>() or t2.<name>: get_t2_map() returns the zeroed map of the
\* constructor
T2Scalar_get(name) ==
    /\ t2.made
    /\ t2' = [t2 EXCEPT !.op = name,
                        !.exc = T2Scalar_getattr(name).exc,
                        !.msg = T2Scalar_getattr(name).msg,
                        !.value = IF name = "get_t2_map"
                                  THEN [is |-> "array", t2 |-> <<Zeros>>,
                                        mean_t2 |-> <<>>]
                                  ELSE NoValue]
    /\ UNCHANGED <<ld, pld, te, dw, asl>>
    /\ UNCHANGED <<kind, pcasl, basic, mte, pc, call, pool, g_cbf, g_mte, progress,
                   dispatched, last, ret, prev, ncalls, nsets, shared, smooth>>

\* T2Scalar_ASLMapping.create_map(): its one statement builds the dict of
\* outputs from self._cbf_map, an attribute the object does not have
T2Scalar_create_map ==
    /\ t2.made
    /\ t2' = [t2 EXCEPT !.op = "create_map",
                        !.exc = T2Scalar_getattr("_cbf_map").exc,
                        !.msg = T2Scalar_getattr("_cbf_map").msg,
                        !.value = NoValue]
    /\ UNCHANGED <<ld, pld, te, dw, asl>>
    /\ UNCHANGED <<kind, pcasl, basic, mte, pc, call, pool, g_cbf, g_mte, progress,
                   dispatched, last, ret, prev, ncalls, nsets, shared, smooth>>

\* a signal volume that is zero everywhere
ZeroSignal == [v \in Voxels |-> "zero"]

\* an ASLData object as its constructor and setters leave it, and the
\* T2Scalar_ASLMapping objects built on it
T2Init ==
    /\ kind = Pooled
    /\ pcasl \in {BasePattern, ZeroSignal}
    /\ pld \in Lists
    /\ ld = pld
    /\ te \in OptionalLists
    /\ dw \in OptionalLists
    /\ asl = Built("__init__", <<>>, NoError)
    /\ basic = [brain_mask |-> Ones, cbf_map |-> Zeros, att_map |-> Zeros]
    /\ mte = [brain_mask |-> Ones, cbf_map |-> Zeros, att_map |-> Zeros,
              t1blgm_map |-> Zeros]
    /\ pc = "idle"
    /\ call = NoCall
    /\ pool = NoPool
    /\ g_cbf = [brain_mask |-> Zeros, cbf_map |-> ZeroBuffer, att_map |-> ZeroBuffer]
    /\ g_mte = [brain_mask |-> Zeros, cbf_map |-> Zeros, att_map |-> Zeros,
                tblgm_map |-> ZeroBuffer]
    /\ progress = 0
    /\ dispatched = 0
    /\ last = Called("none", <<>>, NoError)
    /\ ret = NoResult
    /\ prev = NoResult
    /\ ncalls = 0
    /\ nsets = 0
    /\ shared = {}
    /\ t2 = NoT2
    /\ smooth = NoSmoothing

T2Next ==
    \/ T2Scalar_init
    \/ \E name \in T2ScalarNames : T2Scalar_get(name)
    \/ T2Scalar_create_map

T2Spec == T2Init /\ [][T2Next]_vars

(* ------------------------------ smoothing calls ----------------------- *)
\* a caller applies _apply_smoothing_to_maps to a dict of maps
apply_smoothing(maps, smoothing, smoothing_params) ==
    /\ smooth' = [called |-> TRUE, maps |-> maps, smoothing |-> smoothing,
                  params |-> smoothing_params,
                  result |-> _apply_smoothing_to_maps(maps, smoothing, smoothing_params)]
    /\ UNCHANGED <<ld, pld, te, dw, asl>>
    /\ UNCHANGED <<kind, pcasl, basic, mte, pc, call, pool, g_cbf, g_mte, progress,
                   dispatched, last, ret, prev, ncalls, nsets, shared, t2>>

SmoothInit ==
    /\ kind = Pooled
    /\ pcasl = BasePattern
    /\ ld = <<>>
    /\ pld = <<>>
    /\ te = None
    /\ dw = None
    /\ asl = NotBuilt("none", <<>>, NoError)
    /\ basic = [brain_mask |-> Ones, cbf_map |-> Zeros, att_map |-> Zeros]
    /\ mte = [brain_mask |-> Ones, cbf_map |-> Zeros, att_map |-> Zeros,
              t1blgm_map |-> Zeros]
    /\ pc = "idle"
    /\ call = NoCall
    /\ pool = NoPool
    /\ g_cbf = [brain_mask |-> Zeros, cbf_map |-> ZeroBuffer, att_map |-> ZeroBuffer]
    /\ g_mte = [brain_mask |-> Zeros, cbf_map |-> Zeros, att_map |-> Zeros,
                tblgm_map |-> ZeroBuffer]
    /\ progress = 0
    /\ dispatched = 0
    /\ last = Called("none", <<>>, NoError)
    /\ ret = NoResult
    /\ prev = NoResult
    /\ ncalls = 0
    /\ nsets = 0
    /\ shared = {}
    /\ t2 = NoT2
    /\ smooth = NoSmoothing

SmoothNext ==
    \E maps \in MapsInputs, smoothing \in SmoothingInputs,
       smoothing_params \in ParamsInputs :
        apply_smoothing(maps, smoothing, smoothing_params)

SmoothSpec == SmoothInit /\ [][SmoothNext]_vars

(* ------------------------------ properties ---------------------------- *)
\* a create_map has returned its maps and nothing was called since
Returned == pc = "idle" /\ last.op = "create_map" /\ last.exc = "none"

\* a create_map has raised and nothing was called since
Raised == pc = "idle" /\ last.op = "create_map" /\ last.exc \notin {"none", "running"}

Support(mask) == {v \in Voxels : mask[v] # 0}

\* the step of the loops of chunk v[3] at which voxel v is visited
StepOf(v) == v[2] * z_axis + v[1]

\* no masked voxel visited earlier in v's chunk holds a signal that is not
\* finite, so the loops of the chunk get to v
Reached(mask, v) ==
    \A u \in Support(mask) :
        (u[3] = v[3] /\ StepOf(u) < StepOf(v)) => pcasl[u] # "nan"

Fitted(mask) == {w \in Support(mask) : Reached(mask, w) /\ pcasl[w] \in OkSignals}

NonConverged(mask) == {v \in Support(mask) : Reached(mask, v) /\ pcasl[v] = "nonconv"}

\* C1: a RuntimeError of the solver at a masked voxel leaves zero at that
\* voxel in 'cbf' and 'att' (CBFMapping) and in 't1blgm' (MultiTE), every
\* other masked voxel the loops get to holds its fit, and no create_map ends
\* with the RuntimeError
C1_NonConvergenceStaysLocal ==
    /\ last.op = "create_map" => last.exc # "RuntimeError"
    /\ (kind = Pooled /\ Returned) =>
          /\ \A v \in NonConverged(ret.mask) : ret.cbf[v] = 0 /\ ret.att[v] = 0
          /\ \A w \in Fitted(ret.mask) :
                /\ ret.cbf[w] = curve_fit_buxton(pcasl[w]).par[1]
                /\ ret.att[w] = curve_fit_buxton(pcasl[w]).par[2]
    /\ (kind = MultiTE /\ Returned) =>
          /\ \A v \in NonConverged(ret.mask) : ret.t1blgm[v] = 0
          /\ \A w \in Fitted(ret.mask) :
                LET t1 == curve_fit_multite(pcasl[w], ret.cbf[w], ret.att[w]).par[1]
                IN ret.t1blgm[w] = IF t1 > 4 * T1blGM_par0 THEN 0 ELSE t1

\* a MultiTE create_map returned: in one chunk a masked voxel on which the
\* solver does not converge is followed by a masked voxel that was fitted
C1_Witness ==
    /\ kind = MultiTE
    /\ Returned
    /\ \E v \in NonConverged(ret.mask), w \in Fitted(ret.mask) :
          /\ v[3] = w[3] /\ StepOf(v) < StepOf(w)
          /\ ret.cbf[v] = 0 /\ ret.att[v] = 0 /\ ret.t1blgm[v] = 0
          /\ ret.cbf[w] # 0 /\ ret.t1blgm[w] # 0

\* C2: when a create_map of a CBFMapping returns, every voxel outside the
\* current mask holds 0 in 'cbf' and 'att'
C2_UnmaskedVoxelsAreZero ==
    (kind \in {Pooled, Sequential} /\ Returned) =>
        \A v \in Voxels :
            basic.brain_mask[v] = 0 => ret.cbf[v] = 0 /\ ret.att[v] = 0

\* C3: the caller leaves the wait on the pool, and the stored and returned
\* maps change, only when every dispatched chunk task has finished
C3_ReturnOnlyAfterAllChunks ==
    [][(pc \in {"cbf_pool", "mte_pool"}
          /\ (pc' # pc \/ ret' # ret \/ basic' # basic \/ mte' # mte))
       => \A i \in Chunks : pool.task[i] \in {"done", "failed"}]_vars

\* a create_map that ran its chunks on more than one worker has returned
C3_Witness ==
    /\ Returned
    /\ kind \in {Pooled, MultiTE}
    /\ ret.cores > 1
    /\ dispatched >= x_axis
    /\ ret.cbf # Zeros

\* C4: CBFMapping.create_map raises the configuration error for a numeric
\* worker count that is below 1, above cpu_count or not an integer, before
\* any dispatch, and for no integer in [1, cpu_count]
C4_InvalidWorkerCountRejected ==
    (kind = Pooled /\ last.op = "create_map" /\ last.args.ty # "str") =>
        LET invalid == \/ last.args.ty # "int"
                       \/ last.args.v2 < 2
                       \/ last.args.v2 > 2 * CpuCount
        IN /\ invalid => /\ last.exc = "ValueError"
                         /\ last.msg = <<CoresMsg>>
                         /\ dispatched = 0
           /\ ~invalid => last.msg # <<CoresMsg>>

C6_EmptyTimingRejected ==
    [][(kind = Pooled /\ ncalls' = ncalls + 1 /\ (Len(ld) = 0 \/ Len(pld) = 0))
       => /\ last'.op = "create_map"
          /\ last'.exc \notin {"none", "running"}
          /\ (last'.args.ty = "int" /\ last'.args.v2 >= 0
                  /\ last'.args.v2 <= 2 * CpuCount)
               => /\ last'.exc = "ValueError"
                  /\ last'.msg = <<"LD or PLD list of values must be provided.">>
          /\ dispatched' = 0
          /\ pc' = "idle"
          /\ pool' = pool
          /\ basic'.cbf_map = basic.cbf_map
          /\ basic'.att_map = basic.att_map]_vars

\* create_map raised the LD/PLD error on an empty LD list
C6_Witness ==
    /\ kind = Pooled
    /\ Raised
    /\ Len(ld) = 0
    /\ last.msg = <<"LD or PLD list of values must be provided.">>
    /\ dispatched = 0

\* C7: two create_map runs of a CBFMapping on the same mask, with different
\* numbers of workers, return the same 'cbf' and 'att'
C7_WorkerCountInvariance ==
    (kind = Pooled /\ ret.valid /\ prev.valid
        /\ ret.mask = prev.mask /\ ret.cores # prev.cores)
    => ret.cbf = prev.cbf /\ ret.att = prev.att

\* a run on one worker was followed by a run on two on the same mask
C7_Witness ==
    /\ kind = Pooled
    /\ Returned
    /\ ret.valid /\ prev.valid
    /\ ret.mask = prev.mask
    /\ prev.cores = 1 /\ ret.cores > 1
    /\ Cardinality(Support(ret.mask)) > 1
    /\ ret.cbf # Zeros

\* C8: two create_map calls of a CBFMapping with the same inputs (mask and
\* worker count) return the same 'cbf' and 'att'
C8_Idempotence ==
    (kind \in {Pooled, Sequential} /\ ret.valid /\ prev.valid
        /\ ret.mask = prev.mask /\ ret.cores = prev.cores)
    => ret.cbf = prev.cbf /\ ret.att = prev.att

\* the pooled create_map returned twice on one mask and one worker count
C8_Witness ==
    /\ kind = Pooled
    /\ Returned
    /\ ret.valid /\ prev.valid
    /\ ret.mask = prev.mask /\ ret.cores = prev.cores
    /\ ret.cbf # Zeros

StoredMask == IF kind = MultiTE THEN mte.brain_mask ELSE basic.brain_mask

LabelIn(args) == \E v \in DOMAIN args.mask.data : args.mask.data[v] = args.label

C13_MaskSelectsProcessedVoxels ==
    /\ last.op = "__init__" => StoredMask = Ones
    /\ (kind = Pooled /\ Returned) =>
          /\ g_cbf.brain_mask = basic.brain_mask
          /\ ret.mask = basic.brain_mask
          /\ \A v \in Voxels :
                pcasl[v] \in OkSignals =>
                    ((ret.cbf[v] # 0) <=> (basic.brain_mask[v] # 0))

\* C14: the ASLData constructor succeeds, storing both lists, for LD and PLD
\* lists of equal length, and for lists of different lengths raises 'LD and
\* PLD must have the same array size.' with both lengths
C14_ConstructorChecksSizes ==
    asl.op = "__init__" =>
        LET a == asl.args
        IN IF Len(a.ld_values) = Len(a.pld_values)
           THEN /\ asl.made
                /\ asl.exc = "none"
                /\ ld = a.ld_values
                /\ pld = a.pld_values
           ELSE /\ ~asl.made
                /\ asl.exc = "ValueError"
                /\ asl.msg = <<"LD and PLD must have the same array size.",
                               Len(a.ld_values), Len(a.pld_values)>>

\* the constructor refused an LD list of two values with a PLD list of one
C14_Witness ==
    /\ asl.op = "__init__"
    /\ ~asl.made
    /\ Len(asl.args.ld_values) = 2
    /\ Len(asl.args.pld_values) = 1
    /\ asl.msg[2] = 2 /\ asl.msg[3] = 1

\* C15: in every state of a built ASLData object, after any set_ld and
\* set_pld calls, the LD and PLD lists have the same length
C15_SettersKeepSizes ==
    asl.made => Len(ld) = Len(pld)

\* every value of the list is a number greater than zero
AllPositive(values) ==
    \A n \in 1 .. Len(values) : values[n].ty = "num" /\ values[n].v > 0

\* C16: after every step of a built ASLData object all stored LD, PLD, TE
\* and DW values are numbers greater than zero, and a setter given a list
\* with a value that is no number, zero or negative raises ValueError and
\* leaves the stored lists unchanged
C16_StoredValuesPositive ==
    [][/\ asl'.made =>
            /\ AllPositive(ld') /\ AllPositive(pld')
            /\ AllPositive(te'.v) /\ AllPositive(dw'.v)
       /\ (asl'.op \in {"set_ld", "set_pld", "set_te", "set_dw"}
              /\ ~AllPositive(asl'.args))
            => /\ asl'.exc = "ValueError"
               /\ <<ld', pld', te', dw'>> = <<ld, pld, te, dw>>]_vars

\* the value the T1blGM stage of the last create_map fitted at voxel v,
\* before the limits were applied
FittedT1blGM(v) == reshape(g_mte.tblgm_map)[v]

\* C20 as stated: in the returned 't1blgm' a fitted value above 4*par0[0] is
\* replaced by 4*par0[0], a negative one by 0, any other is unchanged
C20_T1blGMClamped ==
    (kind = MultiTE /\ Returned) =>
        \A v \in Voxels :
            ret.t1blgm[v] = IF FittedT1blGM(v) > 4 * T1blGM_par0 THEN 4 * T1blGM_par0
                            ELSE IF FittedT1blGM(v) < 0 THEN 0
                            ELSE FittedT1blGM(v)

\* C20 amended: in the returned 't1blgm' a fitted value above 4*par0[0] or
\* below 0 is replaced by 0, any other is unchanged
C20_T1blGMOutsideIsZero ==
    (kind = MultiTE /\ Returned) =>
        \A v \in Voxels :
            ret.t1blgm[v] = IF FittedT1blGM(v) > 4 * T1blGM_par0 \/ FittedT1blGM(v) < 0
                            THEN 0
                            ELSE FittedT1blGM(v)

\* a returned 't1blgm' with a voxel fitted above the limit, now 0, and a
\* voxel fitted inside the limits, kept
C20_Witness ==
    /\ kind = MultiTE
    /\ Returned
    /\ \E v \in Voxels : FittedT1blGM(v) > 4 * T1blGM_par0 /\ ret.t1blgm[v] = 0
    /\ \E w \in Voxels : /\ FittedT1blGM(w) > 0
                         /\ FittedT1blGM(w) <= 4 * T1blGM_par0
                         /\ ret.t1blgm[w] = FittedT1blGM(w)

MapsSupplied == ~mean_is_zero(mte.cbf_map) /\ ~mean_is_zero(mte.att_map)

\* the value the T1blGM fit of voxel v gives on the stored maps as fixed inputs
FitOnStoredMaps(v) == curve_fit_multite(pcasl[v], mte.cbf_map[v], mte.att_map[v]).par[1]

\* C18: a MultiTE create_map called while the stored CBF and ATT maps both
\* have a non-zero mean does not run the CBF/ATT stage, leaves the stored
\* maps as they are through every step of the call, fits every voxel on
\* them, and returns them unchanged as 'cbf' and 'att'
C18_SuppliedMapsAreFixedInputs ==
    [][/\ (kind \in MultiTEKinds /\ pc = "idle" /\ ncalls' = ncalls + 1
           /\ MapsSupplied)
             => /\ pc' # "cbf_pool"
                /\ basic'.cbf_map = basic.cbf_map /\ basic'.att_map = basic.att_map
                /\ g_cbf' = g_cbf
                /\ mte'.cbf_map = mte.cbf_map /\ mte'.att_map = mte.att_map
                /\ pc' = "mte_pool" =>
                      g_mte'.cbf_map = mte.cbf_map /\ g_mte'.att_map = mte.att_map
                /\ (pc' = "idle" /\ last'.exc = "none") =>
                      /\ ret'.cbf = mte.cbf_map /\ ret'.att = mte.att_map
                      /\ \A v \in Fitted(mte.brain_mask) :
                            ret'.t1blgm[v] = FitOnStoredMaps(v)
       /\ (pc = "mte_pool" /\ dispatched = x_axis)
             => /\ mte'.cbf_map = mte.cbf_map /\ mte'.att_map = mte.att_map
                /\ g_mte'.cbf_map = mte.cbf_map /\ g_mte'.att_map = mte.att_map
                /\ pc' = "idle" =>
                      /\ ret'.cbf = mte.cbf_map /\ ret'.att = mte.att_map
                      /\ \A v \in Fitted(mte.brain_mask) :
                            FittedT1blGM(v) = FitOnStoredMaps(v)]_vars

\* C21: the constructor of T2Scalar_ASLMapping ends with ValueError 'ASLData
\* must provide TE and PLD values.' on a descriptor without TE values or
\* without PLD values, and with ValueError 'ASLData must not include DW
\* values.' on a descriptor that has TE, PLD and DW values
C21_ConstructorRejectsDescriptor ==
    t2.op = "__init__" =>
        /\ (~te.set \/ pld = <<>>) =>
              /\ t2.exc = "ValueError"
              /\ t2.msg = <<"ASLData must provide TE and PLD values.">>
        /\ (te.set /\ pld # <<>> /\ dw.set) =>
              /\ t2.exc = "ValueError"
              /\ t2.msg = <<"ASLData must not include DW values.">>

\* the stacked volumes and the list of means that a T2 create_map over the
\* PLD list of the object would hand back
PerPLD(value) ==
    /\ value.is = "dict"
    /\ Len(value.t2) = Len(t2.pld_indexes)
    /\ Len(value.mean_t2) = Len(t2.pld_indexes)

\* C22: a T2Scalar create_map returns 't2' with one volume per PLD and
\* 'mean_t2' with one entry per PLD; before the first create_map has
\* returned, get_t2_maps() and get_mean_t2s() return None
C22_OneVolumePerPLD ==
    /\ t2.op = "create_map" => t2.exc = "none" /\ PerPLD(t2.value)
    /\ (t2.op \in {"get_t2_maps", "get_mean_t2s"} /\ ~t2.mapped) =>
          t2.exc = "none" /\ t2.value.is = "None"

\* C23: a T2Scalar create_map on a signal volume that is zero everywhere
\* returns without raising, with the sentinel 0 at every voxel of every
\* per-PLD volume
C23_ZeroSignalGivesSentinel ==
    (t2.op = "create_map" /\ pcasl = ZeroSignal) =>
        /\ t2.exc = "none"
        /\ PerPLD(t2.value)
        /\ \A n \in 1 .. Len(t2.value.t2) : t2.value.t2[n] = Zeros

\* the selector of the last smoothing call is none of None, 'gaussian', 'median'
UnsupportedSelector ==
    smooth.smoothing.ty # "NoneType" /\ smooth.smoothing.v \notin {"gaussian", "median"}

\* the last smoothing call failed with 'Unsupported smoothing type:
\* <selector>' and returned no maps
UnsupportedRaised ==
    /\ smooth.result.exc = "ValueError"
    /\ SubSeq(smooth.result.msg, 1, 2) = <<"Unsupported smoothing type: ", smooth.smoothing.v>>
    /\ ~smooth.result.returned

\* the last smoothing call returned the dict it was given: same keys, same values
ReturnedUnchanged ==
    /\ smooth.result.returned
    /\ DOMAIN smooth.result.out = DOMAIN smooth.maps
    /\ \A key \in DOMAIN smooth.maps : smooth.result.out[key] = smooth.maps[key]

InPool == pc \in {"cbf_pool", "mte_pool"}

\* the mask the tasks of the running pool read
PoolMask == IF pc = "cbf_pool" THEN g_cbf.brain_mask ELSE g_mte.brain_mask

\* the steps of chunk i's loops, among those it has left behind, at which it
\* stored into the buffers
StoredSteps(i) == {p \in 0 .. pool.pos[i] - 1 : PoolMask[VoxelAt(i, p)] # 0}

\* the buffer indices chunk i's task has stored into so far
WrittenBy(i) ==
    {Index(VoxelAt(i, p)[1], VoxelAt(i, p)[2], VoxelAt(i, p)[3]) : p \in StoredSteps(i)}

\* the indices k * (Y * X) + j * X + i of chunk i
OwnIndices(i) ==
    {k * (y_axis * x_axis) + j * x_axis + i : j \in 0 .. y_axis - 1, k \in 0 .. z_axis - 1}

WorkerCountInRange == call.cores.ty = "int" /\ call.cores.v2 \in 2 .. 2 * CpuCount

\* RUNNING: the chunks of a create_map are dispatched and it has not returned
RUNNING == InPool /\ WorkerCountInRange

\* C26: a create_map run with a worker count in [1, cpu_count] goes from its
\* dispatch only to its return: while it runs no chunk task goes back to the
\* queue, loses ground or changes once it has finished, the run leaves a
\* pool only with every chunk finished and ends only by returning; and with
\* the workers and the waiting thread scheduled fairly every chunk that is
\* dispatched eventually finishes and the run returns
C26_RunsToCompletion ==
    /\ [][RUNNING =>
            /\ pc' = pc =>
                 \A i \in Chunks :
                    /\ pool'.pos[i] >= pool.pos[i]
                    /\ pool'.task[i] = "pending" => pool.task[i] = "pending"
                    /\ Finished(pool.task[i]) => pool'.task[i] = pool.task[i]
                    /\ pool'.processes = pool.processes
            /\ pc' # pc =>
                 /\ AllResultsReady(pool)
                 /\ pc' = "mte_pool" \/ Returned'
                 /\ pc = "mte_pool" => Returned'
       ]_vars
    /\ \A i \in Chunks : (RUNNING /\ ~Finished(pool.task[i])) ~> Finished(pool.task[i])
    /\ RUNNING ~> Returned

\* a run with one worker and more chunks than workers has returned, one of
\* its chunk tasks having ended with an exception
C26_Witness ==
    /\ Returned
    /\ ret.valid /\ ret.cores = 1
    /\ x_axis > ret.cores
    /\ progress < x_axis

\* C27: while the chunks of a create_map run, the progress task has been
\* advanced once for each chunk task that has finished and for no other; so
\* when the pooled create_map has returned, the advancement events are as
\* many as the chunks, X
C27_OneAdvancePerChunk ==
    /\ InPool => progress = Cardinality({i \in Chunks : Finished(pool.task[i])})
    /\ (Returned /\ kind \in {Pooled, MultiTE}) => progress = x_axis

\* C28: a MultiTE create_map runs the CBF/ATT stage if and only if the
\* stored CBF map or the stored ATT map has a mean of exactly zero: with such
\* a map the stage is started and, once it has ended, both stored maps are
\* the computed ones, a map supplied alone being overwritten; with two
\* stored maps of non-zero mean the stage is not run and both stay as stored
C28_InternalStageIffZeroMean ==
    [][/\ (kind \in MultiTEKinds /\ pc = "idle" /\ ncalls' = ncalls + 1)
             => IF mean_is_zero(mte.cbf_map) \/ mean_is_zero(mte.att_map)
                THEN /\ kind = MultiTE => pc' = "cbf_pool" /\ call'.top = MultiTE
                     /\ kind = LegacyMultiTE =>
                           \/ last'.exc # "none"
                           \/ /\ mte'.cbf_map = basic'.cbf_map
                              /\ mte'.att_map = basic'.att_map
                ELSE /\ pc' # "cbf_pool"
                     /\ basic'.cbf_map = basic.cbf_map /\ basic'.att_map = basic.att_map
                     /\ mte'.cbf_map = mte.cbf_map /\ mte'.att_map = mte.att_map
       /\ (pc = "cbf_pool" /\ call.top = MultiTE /\ pc' # "cbf_pool")
             => /\ mte'.cbf_map = reshape(g_cbf.cbf_map)
                /\ mte'.att_map = reshape(g_cbf.att_map)]_vars

\* the chunk tasks of the running pool that ended with an exception
FailedChunks == {i \in Chunks : pool.task[i] = "failed"}

\* the buffer indices of the steps chunk i's loops did not get through
Unprocessed(i) ==
    {Index(VoxelAt(i, p)[1], VoxelAt(i, p)[2], VoxelAt(i, p)[3]) :
        p \in pool.pos[i] .. ChunkLen - 1}

NonFiniteMsg == <<"array must not contain infs or NaNs">>

\* C29: when a chunk task of a pooled create_map ends with an exception
\* other than RuntimeError, that step raises nothing to the caller, advances
\* no progress and changes neither the buffers nor another task; the failed
\* task stays as it is and the indices of its unprocessed voxels hold zero;
\* the call waits for every chunk, never ends with the task's exception,
\* returns normally for a worker count in [1, cpu_count], and returns zero
\* at the unprocessed voxels and the fit at the masked voxels of every
\* chunk that did not fail
C29_ChunkExceptionStaysInTask ==
    [][InPool =>
         /\ \A i \in Chunks \ FailedChunks :
               (pc' = pc /\ pool'.task[i] = "failed") =>
                  /\ last' = last /\ last.exc = "running"
                  /\ progress' = progress
                  /\ g_cbf' = g_cbf /\ g_mte' = g_mte
                  /\ \A h \in Chunks \ {i} :
                        pool'.task[h] = pool.task[h] /\ pool'.pos[h] = pool.pos[h]
         /\ \A i \in FailedChunks :
               /\ pc' = pc => pool'.task[i] = "failed" /\ pool'.pos[i] = pool.pos[i]
               /\ \A n \in Unprocessed(i) :
                     IF pc = "cbf_pool"
                     THEN g_cbf.cbf_map[n] = 0 /\ g_cbf.att_map[n] = 0
                     ELSE g_mte.tblgm_map[n] = 0
         /\ (FailedChunks # {} /\ pc' # pc) =>
               /\ AllResultsReady(pool)
               /\ last'.msg # NonFiniteMsg
               /\ WorkerCountInRange => pc' = "mte_pool" \/ Returned'
               /\ progress = x_axis - Cardinality(FailedChunks)
               /\ Returned' =>
                     \A v \in Voxels :
                        LET n == Index(v[1], v[2], v[3])
                            t1 == curve_fit_multite(pcasl[v], ret'.cbf[v], ret'.att[v])
                        IN /\ (v[3] \in FailedChunks /\ n \in Unprocessed(v[3])) =>
                                 IF pc = "cbf_pool"
                                 THEN ret'.cbf[v] = 0 /\ ret'.att[v] = 0
                                 ELSE ret'.t1blgm[v] = 0
                           /\ (v[3] \notin FailedChunks /\ ret'.mask[v] # 0
                               /\ pcasl[v] \in OkSignals) =>
                                 IF pc = "cbf_pool"
                                 THEN /\ ret'.cbf[v] = curve_fit_buxton(pcasl[v]).par[1]
                                      /\ ret'.att[v] = curve_fit_buxton(pcasl[v]).par[2]
                                 ELSE ret'.t1blgm[v] =
                                        IF t1.par[1] > 4 * T1blGM_par0 THEN 0 ELSE t1.par[1]
      ]_vars

\* a pooled create_map has returned normally although the task of one chunk
\* ended at a voxel with a non-finite signal: the voxel after it in the chunk
\* holds zero, a voxel of another chunk holds its fit, and the progress task
\* is one advancement short
C29_Witness ==
    /\ kind = Pooled /\ Returned
    /\ progress = x_axis - 1
    /\ \E v \in Support(ret.mask), u \in Support(ret.mask), w \in Support(ret.mask) :
          /\ pcasl[v] = "nan"
          /\ u[3] = v[3] /\ StepOf(v) < StepOf(u) /\ pcasl[u] \in OkSignals
          /\ ret.cbf[u] = 0 /\ ret.att[u] = 0
          /\ w[3] # v[3] /\ ret.cbf[w] = curve_fit_buxton(pcasl[w]).par[1]
          /\ ret.cbf[w] # 0

\* a pool right after Pool(...) and the apply_async calls: nothing taken yet
FreshPool(pl) == \A i \in Chunks : pl.task[i] = "pending" /\ pl.pos[i] = 0

\* C30: every dispatch of a pooled create_map starts a pool of its own on a
\* zeroed buffer of its own, with the mask (and, for MultiTE, the CBF and
\* ATT maps) the object holds at that call; while the chunks run, the
\* workers keep that mask and those maps, every value they store is the
\* fit of that call's data, only the running call's buffer changes, and the
\* maps earlier calls returned stay as they were returned; at the return
\* the earlier result is still what it was and the new maps hold nothing
\* but this call's values
C30_CallOwnsPoolAndBuffer ==
    [][(kind = Pooled \/ kind = MultiTE) =>
         /\ (pc' = "cbf_pool" /\ pc # "cbf_pool") =>
               /\ FreshPool(pool')
               /\ g_cbf'.cbf_map = ZeroBuffer /\ g_cbf'.att_map = ZeroBuffer
               /\ g_cbf'.brain_mask = basic'.brain_mask
         /\ (pc' = "mte_pool" /\ pc # "mte_pool") =>
               /\ FreshPool(pool')
               /\ g_mte'.tblgm_map = ZeroBuffer
               /\ g_mte'.brain_mask = mte'.brain_mask
               /\ g_mte'.cbf_map = mte'.cbf_map /\ g_mte'.att_map = mte'.att_map
         /\ (pc = "cbf_pool" /\ pc' = pc) =>
               /\ g_cbf'.brain_mask = basic.brain_mask
               /\ g_mte' = g_mte
               /\ basic' = basic /\ mte' = mte /\ ret' = ret /\ prev' = prev
               /\ \A v \in Voxels :
                     LET n == Index(v[1], v[2], v[3])
                     IN g_cbf'.cbf_map[n] # g_cbf.cbf_map[n] =>
                          /\ basic.brain_mask[v] # 0
                          /\ g_cbf'.cbf_map[n] = curve_fit_buxton(pcasl[v]).par[1]
                          /\ g_cbf'.att_map[n] = curve_fit_buxton(pcasl[v]).par[2]
         /\ (pc = "mte_pool" /\ pc' = pc) =>
               /\ g_mte'.brain_mask = mte.brain_mask
               /\ g_mte'.cbf_map = mte.cbf_map /\ g_mte'.att_map = mte.att_map
               /\ g_cbf' = g_cbf
               /\ basic' = basic /\ mte' = mte /\ ret' = ret /\ prev' = prev
               /\ \A v \in Voxels :
                     LET n == Index(v[1], v[2], v[3])
                     IN g_mte'.tblgm_map[n] # g_mte.tblgm_map[n] =>
                          /\ mte.brain_mask[v] # 0
                          /\ g_mte'.tblgm_map[n] =
                                curve_fit_multite(pcasl[v], mte.cbf_map[v],
                                                  mte.att_map[v]).par[1]
         /\ (InPool /\ Returned') =>
               /\ prev' = ret
               /\ kind = Pooled =>
                     \A v \in Voxels :
                        /\ ret'.mask[v] = 0 => ret'.cbf[v] = 0 /\ ret'.att[v] = 0
                        /\ ret'.cbf[v] \in {0, curve_fit_buxton(pcasl[v]).par[1]}
                        /\ ret'.att[v] \in {0, curve_fit_buxton(pcasl[v]).par[2]}]_vars

\* a second create_map of a CBFMapping has returned, on a mask that leaves
\* out a voxel the first call had fitted: the new maps hold zero there and
\* the maps of the first call still hold its fit
C30_Witness ==
    /\ kind = Pooled /\ Returned
    /\ ret.valid /\ prev.valid
    /\ \E v \in Voxels :
          /\ prev.mask[v] # 0 /\ ret.mask[v] = 0
          /\ prev.cbf[v] = curve_fit_buxton(pcasl[v]).par[1] /\ prev.cbf[v] # 0
          /\ ret.cbf[v] = 0
    /\ \E w \in Voxels : ret.cbf[w] # 0

=============================================================================
